---- MODULE Spec2Model ----
(***************************************************************************)
(* A model of the newsapi client library (src/src/lib.rs): the client      *)
(* configuration, URL preparation, the blocking and the non-blocking fetch *)
(* and the mapping of service error codes to NewsApiError.                 *)
(*                                                                         *)
(* Strings are TLA+ strings; Len, SubSeq and \o act on their characters.   *)
(* Rust's Option is a sequence of length at most one, Result is a record   *)
(* with an ok flag.                                                        *)
(***************************************************************************)
EXTENDS Integers, Sequences, FiniteSets, TLC

\* ------------------------------------------------------------------ bounds

\* The longest articles array in a response body.
MaxArticles == 2

\* ------------------------------------------------------- Option and Result

None == <<>>
Some(x) == <<x>>

\* Ok(v) and Err(kind(msg)) of Result<_, NewsApiError>.  A kind that wraps
\* an underlying cause carries no message of its own.
Ok(v) == [ok |-> TRUE, kind |-> "", msg |-> "", val |-> Some(v)]
Err(kind, msg) == [ok |-> FALSE, kind |-> kind, msg |-> msg, val |-> None]

\* The variants of NewsApiError.
NewsApiError ==
    {"AsyncRequestError", "TransportError", "ConversionError", "ParseError",
     "UrlParseError", "UnknownError", "BadRequest"}

\* ------------------------------------------------------------ enumerations

BASE_URL == "https://newsapi.org/v2/"

Endpoint == {"TopHeadlines"}

Endpoint_to_string(e) ==
    CASE e = "TopHeadlines" -> "top-headlines"

Country == {"US", "SE"}

Country_to_string(c) ==
    CASE c = "US" -> "us"
      [] c = "SE" -> "se"

\* ---------------------------------------------------------------- url::Url

\* The position of the first ch in s at or after from, 0 when there is none.
Find(s, ch, from) ==
    LET hits == {i \in from..Len(s) : SubSeq(s, i, i) = ch}
    IN  IF hits = {} THEN 0 ELSE CHOOSE i \in hits : \A j \in hits : i <= j

\* The position of the first character of s at or after from that is not ch,
\* Len(s) + 1 when there is none.
SkipAll(s, ch, from) ==
    LET rest == {i \in from..Len(s) : SubSeq(s, i, i) # ch}
    IN  IF rest = {} THEN Len(s) + 1
        ELSE CHOOSE i \in rest : \A j \in rest : i <= j

\* Url::parse of an absolute URL with a special scheme and no fragment:
\* scheme ":" slashes host path [ "?" query ].  Without a scheme the input is
\* relative and there is no base to resolve it against; a special scheme
\* needs a host; an empty path is "/".
Url_parse(input) ==
    LET colon == Find(input, ":", 1)
        hostAt == SkipAll(input, "/", colon + 1)
        slash == Find(input, "/", hostAt)
        quest == Find(input, "?", hostAt)
        hostEnd == IF slash # 0 /\ (quest = 0 \/ slash < quest) THEN slash - 1
                   ELSE IF quest # 0 THEN quest - 1 ELSE Len(input)
        pathEnd == IF quest # 0 THEN quest - 1 ELSE Len(input)
        path == SubSeq(input, hostEnd + 1, pathEnd)
    IN  IF colon <= 1 THEN Err("url::ParseError", "RelativeUrlWithoutBase")
        ELSE IF hostEnd < hostAt THEN Err("url::ParseError", "EmptyHost")
        ELSE Ok([scheme |-> SubSeq(input, 1, colon - 1),
                 host |-> SubSeq(input, hostAt, hostEnd),
                 path |-> IF path = "" THEN "/" ELSE path,
                 query |-> IF quest = 0 THEN None
                           ELSE Some(SubSeq(input, quest + 1, Len(input)))])

\* PathSegmentsMut::push: "." and ".." are skipped; a "/" is written before
\* the segment unless the path is only the initial "/" (push does not pop an
\* empty last segment: that is pop_if_empty, which the caller may chain).
\* The segments used here need no percent-encoding.
push(url, segment) ==
    IF segment \in {".", ".."} THEN url
    ELSE [url EXCEPT !.path =
            (IF Len(url.path) > 1 THEN url.path \o "/" ELSE url.path)
                \o segment]

\* Url::set_query.
set_query(url, query) == [url EXCEPT !.query = query]

\* Url::to_string: the serialization.
Url_to_string(url) ==
    url.scheme \o "://" \o url.host \o url.path
        \o (IF url.query = None THEN "" ELSE "?" \o url.query[1])

\* --------------------------------------------------------- response bodies

\* A JSON value.
JNull == [t |-> "null"]
JStr(s) == [t |-> "str", v |-> s]
JNum(n) == [t |-> "num", v |-> n]
JArr(a) == [t |-> "arr", v |-> a]
JObj(o) == [t |-> "obj", v |-> o]

\* The member name of a JSON object, None when the object has no such member.
Member(obj, name) ==
    IF name \in DOMAIN obj.v THEN Some(obj.v[name]) ELSE None

\* A response body: text that is or is not syntactically valid JSON.
InvalidJson == [valid |-> FALSE, json |-> JNull]
Text(j) == [valid |-> TRUE, json |-> j]

\* ------------------------------------------------------ serde::Deserialize

\* A failed deserialization: a serde_json::Error.
DeErr == Err("serde_json::Error", "")

\* String: the member must be present and a JSON string.
de_String(f) ==
    IF f # None /\ f[1].t = "str" THEN Ok(f[1].v) ELSE DeErr

\* Option<String>: a missing member and null are None.
de_Option_String(f) ==
    IF f = None \/ f[1].t = "null" THEN Ok(None)
    ELSE IF f[1].t = "str" THEN Ok(Some(f[1].v))
    ELSE DeErr

\* u32: the member must be present and a number that is not negative (the
\* bodies hold no number above u32's largest).
de_u32(f) ==
    IF f # None /\ f[1].t = "num" /\ f[1].v >= 0
    THEN Ok(f[1].v) ELSE DeErr

de_ArticleSource(f) ==
    IF f = None \/ f[1].t # "obj" THEN DeErr
    ELSE LET id == de_Option_String(Member(f[1], "id"))
             name == de_String(Member(f[1], "name"))
         IN  IF id.ok /\ name.ok
             THEN Ok([id |-> id.val[1], name |-> name.val[1]])
             ELSE DeErr

de_Article(j) ==
    IF j.t # "obj" THEN DeErr
    ELSE LET source == de_ArticleSource(Member(j, "source"))
             title == de_String(Member(j, "title"))
             author == de_Option_String(Member(j, "author"))
             description == de_Option_String(Member(j, "description"))
             url == de_String(Member(j, "url"))
         IN  IF source.ok /\ title.ok /\ author.ok /\ description.ok /\ url.ok
             THEN Ok([source |-> source.val[1], title |-> title.val[1],
                      author |-> author.val[1],
                      description |-> description.val[1],
                      url |-> url.val[1]])
             ELSE DeErr

\* Vec<Article>: every element in turn, in the array's order.
de_Vec_Article(f) ==
    IF f = None \/ f[1].t # "arr" THEN DeErr
    ELSE LET each == [i \in 1..Len(f[1].v) |-> de_Article(f[1].v[i])]
         IN  IF \A i \in 1..Len(each) : each[i].ok
             THEN Ok([i \in 1..Len(each) |-> each[i].val[1]])
             ELSE DeErr

de_NewsAPIResponse(j) ==
    IF j.t # "obj" THEN DeErr
    ELSE LET status == de_String(Member(j, "status"))
             totalResults == de_u32(Member(j, "totalResults"))
             code == de_Option_String(Member(j, "code"))
             articles == de_Vec_Article(Member(j, "articles"))
         IN  IF status.ok /\ totalResults.ok /\ code.ok /\ articles.ok
             THEN Ok([status |-> status.val[1],
                      totalResults |-> totalResults.val[1],
                      code |-> code.val[1],
                      articles |-> articles.val[1]])
             ELSE DeErr

\* serde_json::from_reader: a syntax error, or the derived deserializer.
from_reader(body) ==
    IF ~body.valid THEN DeErr ELSE de_NewsAPIResponse(body.json)

\* NewsAPIResponse::articles.
articles(json) == json.articles

\* ------------------------------------------------------------ NewsApiError

\* The #[from] conversions the ? operator applies to a failed step's cause.
From(cause) ==
    CASE cause = "reqwest::Error" -> "AsyncRequestError"
      [] cause = "ureq::Error" -> "TransportError"
      [] cause = "std::io::Error" -> "ConversionError"
      [] cause = "serde_json::Error" -> "ParseError"
      [] cause = "url::ParseError" -> "UrlParseError"

\* r?: the value of r, or an early return of the converted error.
Try(r) == IF r.ok THEN r ELSE Err(From(r.kind), "")

\* map_response_err comparing the code without regard to letter case.
map_response_err_nocase(code) ==
    IF code # None
    THEN IF code[1] \in {"apiKeyDisabled", "apikeydisabled", "APIKEYDISABLED"}
         THEN Err("BadRequest", "Your API key has been disabled")
         ELSE Err("UnknownError", "Unknown error")
    ELSE Err("UnknownError", "Unknown Error")

map_response_err(code) ==
    IF code # None
    THEN IF code[1] = "apiKeyDisabled"
         THEN Err("BadRequest", "Your API key has been disabled")
         ELSE Err("UnknownError", "Unknown error")
    ELSE Err("UnknownError", "Unknown Error")

\* ------------------------------------------------------------------ NewsAPI

new(api_key) ==
    [api_key |-> api_key, endpoint |-> "TopHeadlines", country |-> "US"]

\* endpoint rebuilding the client from its defaults.
endpoint_rebuild(self, e) == [new(self.api_key) EXCEPT !.endpoint = e]

endpoint(self, e) == [self EXCEPT !.endpoint = e]

country(self, c) == [self EXCEPT !.country = c]

prepare_url(self) ==
    LET parsed == Try(Url_parse(BASE_URL))
    IN  IF ~parsed.ok THEN parsed
        ELSE LET url1 == push(parsed.val[1], Endpoint_to_string(self.endpoint))
                 q == "country=" \o Country_to_string(self.country)
                 url2 == set_query(url1, Some(q))
             IN  Ok(Url_to_string(url2))

\* match_status accepting the status in any letter case.
match_status_nocase(json) ==
    IF json.status \in {"ok", "OK", "Ok", "oK"} THEN Ok(json)
    ELSE map_response_err(json.code)

\* The match on json.status that ends fetch and fetch_async.
match_status(json) ==
    IF json.status = "ok" THEN Ok(json) ELSE map_response_err(json.code)

\* ------------------------------------------------------- the HTTP libraries

\* A header value may hold no line break.
valid_header_value(s) ==
    \A i \in 1..Len(s) : SubSeq(s, i, i) \notin {"\n", "\r"}

\* ureq's Request::call under the canned outcome net: an invalid header or a
\* failed exchange is a ureq::Error, else the response.
ureq_call(api_key, net) ==
    IF ~valid_header_value(api_key) \/ net.fail = "transport"
    THEN Err("ureq::Error", "") ELSE Ok(net)

\* ureq's Response::into_json: io::Result<T>.  A body that cannot be read is
\* an io::Error, and a serde_json::Error is wrapped into an io::Error of
\* kind InvalidData.
ureq_into_json(resp) ==
    IF resp.fail = "read" THEN Err("std::io::Error", "")
    ELSE LET parsed == from_reader(resp.body)
         IN  IF parsed.ok THEN parsed ELSE Err("std::io::Error", "InvalidData")

\* reqwest's RequestBuilder::build: an invalid header value is a
\* reqwest::Error.
reqwest_build(api_key) ==
    IF valid_header_value(api_key) THEN Ok(api_key)
    ELSE Err("reqwest::Error", "builder")

\* reqwest's Client::execute under the canned outcome net.
reqwest_execute(net) ==
    IF net.fail = "transport" THEN Err("reqwest::Error", "request")
    ELSE Ok(net)

\* reqwest's Response::json: a body that cannot be read or decoded is a
\* reqwest::Error.
reqwest_json(resp) ==
    IF resp.fail = "read" THEN Err("reqwest::Error", "body")
    ELSE LET parsed == from_reader(resp.body)
         IN  IF parsed.ok THEN parsed ELSE Err("reqwest::Error", "decode")

\* ------------------------------------------------------------------ inputs

ApiKeys == {"", "k3y", "k\ny"}

ArtBBC ==
    JObj([source |-> JObj([id |-> JNull, name |-> JStr("BBC")]),
          title |-> JStr("T"), author |-> JNull, description |-> JNull,
          url |-> JStr("http://x")])

ArtCNN ==
    JObj([source |-> JObj([id |-> JStr("cnn"), name |-> JStr("CNN")]),
          title |-> JStr("U"), author |-> JStr("Ann"),
          description |-> JStr("d"), url |-> JStr("http://y")])

ArtNoTitle ==
    JObj([source |-> JObj([name |-> JStr("BBC")]), url |-> JStr("http://z")])

ArticleJsons == {ArtBBC, ArtCNN, ArtNoTitle}

ArticleLists == UNION {[1..n -> ArticleJsons] : n \in 0..MaxArticles}

\* One member of a JSON object, or none when the value is None.
Fld(name, opt) == IF opt = None THEN <<>> ELSE name :> opt[1]

\* The body {"status":..,"totalResults":..,"code":..,"articles":..} with the
\* members that are not None.
Body(status, totalResults, code, arts) ==
    Text(JObj(Fld("status", status) @@ Fld("totalResults", totalResults)
              @@ Fld("code", code) @@ Fld("articles", arts)))

Codes ==
    {None, Some(JNull), Some(JStr("apiKeyDisabled")),
     Some(JStr("apikeydisabled")), Some(JStr("")), Some(JStr("somethingElse"))}

Bodies ==
    {InvalidJson}
    \cup {Body(Some(JStr("ok")), Some(JNum(Len(a))), None, Some(JArr(a))) :
            a \in ArticleLists}
    \cup {Body(Some(JStr("error")), None, c, None) :
            c \in {None, Some(JStr("apiKeyDisabled")),
                   Some(JStr("somethingElse"))}}
    \cup {Body(Some(JStr("error")), Some(JNum(0)), c, Some(JArr(<<>>))) :
            c \in Codes}
    \cup {Body(Some(JStr(s)), Some(JNum(0)), None, Some(JArr(<<>>))) :
            s \in {"OK", "Ok"}}
    \cup {Body(Some(JStr("ok")), Some(JNum(1)),
               Some(JStr("apiKeyDisabled")), Some(JArr(<<ArtBBC>>))),
          Body(Some(JStr("ok")), Some(JNum(-1)), None, Some(JArr(<<>>))),
          Body(None, Some(JNum(0)), None, Some(JArr(<<>>)))}

\* The canned outcomes of the network step: the exchange fails, the body
\* cannot be read, or a body arrives.
Outcomes ==
    {[fail |-> "transport", body |-> InvalidJson],
     [fail |-> "read", body |-> InvalidJson]}
    \cup {[fail |-> "none", body |-> b] : b \in Bodies}

Modes == {"sync", "async"}

\* -------------------------------------------------------------------- state

VARIABLES
    self,       \* the client
    key,        \* the string given to new
    set_e,      \* the argument of the last endpoint call, None before any
    set_c,      \* the argument of the last country call, None before any
    url_out,    \* what the last prepare_url call returned, None before any
    net,        \* the canned outcome of the network step
    pc,         \* the position of the running fetch, "idle" when none runs
    mode,       \* "sync" for fetch, "async" for fetch_async
    json,       \* the envelope parsed by the running fetch
    steps,      \* the steps the running fetch has executed, in order
    requests,   \* the HTTP requests the running fetch has issued
    result,     \* what the running fetch returns
    prev        \* the last call completed against net: mode, client, result

vars ==
    <<self, key, set_e, set_c, url_out, net, pc, mode, json, steps, requests,
      result, prev>>

config == <<self, key, set_e, set_c, url_out>>
call == <<pc, mode, json, steps, requests, result>>

Init ==
    /\ \E k \in ApiKeys : self = new(k) /\ key = k
    /\ set_e = None
    /\ set_c = None
    /\ url_out = None
    /\ net \in Outcomes
    /\ pc = "idle"
    /\ mode = "sync"
    /\ json = None
    /\ steps = <<>>
    /\ requests = 0
    /\ result = None
    /\ prev = None

\* The test server is given another canned outcome.
Stub(o) ==
    /\ pc = "idle"
    /\ o # net
    /\ net' = o
    /\ prev' = None
    /\ UNCHANGED <<config, call>>

\* The setters take &mut self: no fetch borrows the client meanwhile.
SetEndpoint(e) ==
    /\ pc = "idle"
    /\ self' = endpoint(self, e)
    /\ set_e' = Some(e)
    /\ UNCHANGED <<key, set_c, url_out, net, call, prev>>

SetCountry(c) ==
    /\ pc = "idle"
    /\ self' = country(self, c)
    /\ set_c' = Some(c)
    /\ UNCHANGED <<key, set_e, url_out, net, call, prev>>

PrepareUrl ==
    /\ pc = "idle"
    /\ url_out' = Some(prepare_url(self))
    /\ UNCHANGED <<self, key, set_e, set_c, net, call, prev>>

\* After sending the request again when a step fails.
After_retry(r, next) ==
    IF r.ok THEN [pc |-> next, result |-> None]
    ELSE [pc |-> "call", result |-> None]

\* The step after a fallible step that returned r: next, or the early return
\* of r's converted error.
After(r, next) ==
    IF r.ok THEN [pc |-> next, result |-> None]
    ELSE [pc |-> "done", result |-> Some(Try(r))]

\* fetch and fetch_async begin by preparing the URL.
Fetch(m) ==
    /\ pc = "idle"
    /\ mode' = m
    /\ LET a == After(prepare_url(self), IF m = "sync" THEN "call" ELSE "build")
       IN  pc' = a.pc /\ result' = a.result
    /\ steps' = <<"prepare_url">>
    /\ requests' = 0
    /\ json' = None
    /\ UNCHANGED <<config, net, prev>>

\* fetch_async builds the request.
Build ==
    /\ pc = "build"
    /\ LET a == After(reqwest_build(self.api_key), "call")
       IN  pc' = a.pc /\ result' = a.result
    /\ steps' = Append(steps, "build")
    /\ UNCHANGED <<config, net, mode, json, requests, prev>>

\* req.call() and client.execute(req): the request is sent unless its header
\* is refused first.
Call ==
    /\ pc = "call"
    /\ LET r == IF mode = "sync" THEN ureq_call(self.api_key, net)
                ELSE reqwest_execute(net)
           a == After(r, "into_json")
       IN  pc' = a.pc /\ result' = a.result
    /\ requests' = IF valid_header_value(self.api_key) THEN requests + 1
                   ELSE requests
    /\ steps' = Append(steps, "call")
    /\ UNCHANGED <<config, net, mode, json, prev>>

\* into_json() and json(): the body is read and parsed.
IntoJson ==
    /\ pc = "into_json"
    /\ LET r == IF mode = "sync" THEN ureq_into_json(net) ELSE reqwest_json(net)
           a == After(r, "match")
       IN  /\ pc' = a.pc /\ result' = a.result
           /\ json' = IF r.ok THEN r.val ELSE None
    /\ steps' = Append(steps, "into_json")
    /\ UNCHANGED <<config, net, mode, requests, prev>>

\* The match on the status.
Match ==
    /\ pc = "match"
    /\ pc' = "done"
    /\ result' = Some(match_status(json[1]))
    /\ steps' = Append(steps, "match")
    /\ UNCHANGED <<config, net, mode, json, requests, prev>>

\* The call returns its result to the caller.
Return ==
    /\ pc = "done"
    /\ pc' = "idle"
    /\ prev' = Some([mode |-> mode, self |-> self, result |-> result[1]])
    /\ mode' = "sync"
    /\ json' = None
    /\ steps' = <<>>
    /\ requests' = 0
    /\ result' = None
    /\ UNCHANGED <<config, net>>

Next ==
    \/ \E o \in Outcomes : Stub(o)
    \/ \E e \in Endpoint : SetEndpoint(e)
    \/ \E c \in Country : SetCountry(c)
    \/ PrepareUrl
    \/ \E m \in Modes : Fetch(m)
    \/ Build
    \/ Call
    \/ IntoJson
    \/ Match
    \/ Return

Spec == Init /\ [][Next]_vars

\* ------------------------------------------------------------------ claims

\* The steps the running call has executed.
Executed == {steps[i] : i \in DOMAIN steps}

\* The running call has received a response whose body can be read.
BodyArrived == "into_json" \in Executed /\ net.fail = "none"

\* The value of member name of the body's top-level JSON object.
Raw(name) == net.body.json.v[name]

\* C1: a client just constructed by new(api_key), for any api_key and with no
\* setter called, gets exactly
\* https://newsapi.org/v2/top-headlines?country=us from prepare_url().
C1_DefaultUrl ==
    (set_e = None /\ set_c = None /\ url_out # None)
        => url_out[1] = Ok("https://newsapi.org/v2/top-headlines?country=us")

\* The endpoint and the country of the last setter calls, the defaults when
\* there was none.
LastEndpoint == IF set_e = None THEN "TopHeadlines" ELSE set_e[1]
LastCountry == IF set_c = None THEN "US" ELSE set_c[1]

\* C2: after any sequence of endpoint and country calls the configuration
\* holds the values of the last calls (the defaults when there was none), a
\* setter called again with the same value changes nothing, and prepare_url()
\* returns the base URL followed by the endpoint's rendering and the single
\* query parameter country=<rendering of the country>.
C2_LastSetterWins ==
    [][/\ self.endpoint = LastEndpoint /\ self.country = LastCountry
       /\ \A e \in Endpoint : SetEndpoint(e) => endpoint(self', e) = self'
       /\ \A c \in Country : SetCountry(c) => country(self', c) = self'
       /\ PrepareUrl =>
            url_out' = Some(Ok(BASE_URL \o Endpoint_to_string(LastEndpoint)
                               \o "?country="
                               \o Country_to_string(LastCountry)))]_vars

\* The bodies with only the status member and optionally the code member.
StatusOnlyBodies ==
    {b \in Bodies : b.valid /\ DOMAIN b.json.v \subseteq {"status", "code"}
                    /\ "status" \in DOMAIN b.json.v}

\* C3: for a body with only the status member and optionally the code
\* member, where status is not "ok", fetch() fails with
\* BadRequest("Your API key has been disabled") for the code apiKeyDisabled,
\* UnknownError("Unknown error") for any other code and
\* UnknownError("Unknown Error") without a code.
C3_StatusOnlyBody ==
    (pc = "done" /\ mode = "sync" /\ BodyArrived
     /\ net.body \in StatusOnlyBodies /\ Raw("status") # JStr("ok"))
        => result[1] =
             IF "code" \notin DOMAIN net.body.json.v
             THEN Err("UnknownError", "Unknown Error")
             ELSE IF Raw("code") = JStr("apiKeyDisabled")
             THEN Err("BadRequest", "Your API key has been disabled")
             ELSE Err("UnknownError", "Unknown error")

\* C4: when the body is not syntactically valid JSON, fetch() fails with
\* ParseError and returns no envelope.
C4_InvalidJsonIsParseError ==
    (pc = "done" /\ mode = "sync" /\ BodyArrived /\ ~net.body.valid)
        => result[1].kind = "ParseError" /\ result[1].val = None

\* C5: with the same client configuration and the same canned response body,
\* fetch() and fetch_async() return the same result: the same envelope, or
\* the same NewsApiError kind with the same message.  (Stated for the canned
\* bodies; when the exchange itself fails the two transports report
\* TransportError and AsyncRequestError.)
C5_SyncAsyncAgree ==
    (pc = "done" /\ BodyArrived /\ prev # None /\ prev[1].mode # mode
     /\ prev[1].self = self)
        => result[1] = prev[1].result

\* C6: for a body that parses into the envelope, fetch() returns Ok with the
\* envelope if and only if the body's status is exactly "ok", and an error
\* without envelope otherwise; the returned articles are the body's, in the
\* body's order.
C6_OkIffStatusOk ==
    (pc = "done" /\ mode = "sync" /\ BodyArrived /\ from_reader(net.body).ok)
        => /\ result[1].ok <=> Raw("status") = JStr("ok")
           /\ ~result[1].ok => result[1].val = None
           /\ result[1].ok =>
                LET got == articles(result[1].val[1])
                    sent == Raw("articles").v
                IN  /\ Len(got) = Len(sent)
                    /\ \A i \in 1..Len(sent) :
                         /\ JStr(got[i].title) = sent[i].v.title
                         /\ JStr(got[i].url) = sent[i].v.url
                         /\ JStr(got[i].source.name) = sent[i].v.source.v.name

\* A fetch returned an envelope with two different articles.
C6_Witness ==
    /\ pc = "done" /\ mode = "sync" /\ result[1].ok
    /\ Len(articles(result[1].val[1])) = 2
    /\ articles(result[1].val[1])[1].title = "T"
    /\ articles(result[1].val[1])[2].title = "U"

\* C7: map_response_err gives BadRequest("Your API key has been disabled")
\* for the code "apiKeyDisabled", UnknownError("Unknown error") for every
\* other code, the empty one and the ones in another letter case included,
\* UnknownError("Unknown Error") for no code, and nothing else.
C7_MapResponseErr ==
    (pc = "done" /\ "match" \in Executed /\ json[1].status # "ok")
        => /\ result[1].kind \in {"BadRequest", "UnknownError"}
           /\ json[1].code = Some("apiKeyDisabled")
                => result[1] = Err("BadRequest", "Your API key has been disabled")
           /\ (json[1].code # None /\ json[1].code # Some("apiKeyDisabled"))
                => result[1] = Err("UnknownError", "Unknown error")
           /\ json[1].code = None
                => result[1] = Err("UnknownError", "Unknown Error")

\* The code differs from "apiKeyDisabled" only in letter case.
C7_Witness ==
    /\ pc = "done" /\ "match" \in Executed
    /\ json[1].code = Some("apikeydisabled")
    /\ result[1] = Err("UnknownError", "Unknown error")

\* The steps of a call in the order of the code.
Order(m) ==
    IF m = "sync" THEN <<"prepare_url", "call", "into_json", "match">>
    ELSE <<"prepare_url", "build", "call", "into_json", "match">>

\* The error kinds a failure of step can end a call of mode m with.
StepKinds(step, m) ==
    CASE step = "prepare_url" -> {"UrlParseError"}
      [] step = "build" -> {"AsyncRequestError"}
      [] step = "call" ->
           IF m = "sync" THEN {"TransportError"} ELSE {"AsyncRequestError"}
      [] step = "into_json" ->
           IF m = "sync" THEN {"ConversionError"} ELSE {"AsyncRequestError"}
      [] step = "match" -> {"BadRequest", "UnknownError"}

C9_Frame ==
    /\ [](/\ self.api_key = key
          /\ self.endpoint \in Endpoint
          /\ self.country \in Country
          /\ DOMAIN self = {"api_key", "endpoint", "country"})
    /\ [][/\ (\E e \in Endpoint : SetEndpoint(e)) =>
                self'.api_key = self.api_key /\ self'.country = self.country
          /\ (\E c \in Country : SetCountry(c)) =>
                self'.api_key = self.api_key /\ self'.endpoint = self.endpoint
          /\ (PrepareUrl \/ (\E m \in Modes : Fetch(m)) \/ Build \/ Call
              \/ IntoJson \/ Match \/ Return) => self' = self]_vars

\* Both setters and prepare_url were called and a fetch has failed.
C9_Witness ==
    /\ self.country = "SE" /\ set_e # None /\ url_out # None
    /\ pc = "done" /\ ~result[1].ok

\* C10: a failing fetch() ends with the kind of the first step that failed:
\* UrlParseError for the URL, TransportError for the HTTP call,
\* ConversionError for reading the body, ParseError for a body that is not
\* JSON of the envelope shape, BadRequest or UnknownError for a status that
\* is not "ok".
C10_KindPerStep ==
    (pc = "done" /\ mode = "sync" /\ ~result[1].ok)
        => LET last == steps[Len(steps)]
           IN  result[1].kind \in
                 CASE last = "prepare_url" -> {"UrlParseError"}
                   [] last = "call" -> {"TransportError"}
                   [] last = "into_json" /\ net.fail = "read" ->
                        {"ConversionError"}
                   [] last = "into_json" /\ net.fail # "read" ->
                        {"ParseError"}
                   [] last = "match" -> {"BadRequest", "UnknownError"}

====
